---- MODULE Spec2Model ----
(***************************************************************************)
(* Model of the principal-keyed leave canister (src/unnamed/part_001):     *)
(* the user store, the leave store and the update calls that change them.  *)
(*                                                                         *)
(* Time is counted in quarter days from the start of the current calendar  *)
(* year, so that the rounding in findDiffInDays has cases on both sides of *)
(* one half.  Timestamps written by ic.time() into createdAt and into      *)
(* User.updatedAt are not modelled; Leave.updatedAt is kept as None/Some.  *)
(* A JavaScript number that may be NaN or undefined is a record            *)
(* [t, v]; stored balances are always finite and are plain integers.       *)
(***************************************************************************)
EXTENDS Integers, FiniteSets, Sequences, TLC

VARIABLES users, leaves, calls, last

vars == <<users, leaves, calls, last>>

----------------------------------------------------------------------------
(* Bounds *)

MaxLeaves == 2

\* Update calls in a behaviour.
MaxCalls == 5

Principals == {"p1", "p2"}

LeaveIds == 1..MaxLeaves

\* Ids a caller may pass: the uuids of the model and a string that is no uuid.
IdInputs == LeaveIds \cup {0}

Names == {"", "n1", "n2"}

Emails == {"", "bad", "a@x.io", "b@x.io"}

StatusInputs == {"PENDING", "APPROVED", "REJECTED", "ACCEPTED"}

FlagInputs == {"true", "false", "undefined"}

----------------------------------------------------------------------------
(* JavaScript values *)

Num(n) == [t |-> "num", v |-> n]

NaN == [t |-> "nan", v |-> 0]

Undefined == [t |-> "undefined", v |-> 0]

IsNum(x) == x.t = "num"

\* if (x) on a number: 0, NaN and undefined are falsy.
Truthy(x) == IsNum(x) /\ x.v # 0

\* a < b, a >= b on numbers: every comparison with NaN is false.
Lt(a, b) == IsNum(a) /\ IsNum(b) /\ a.v < b.v

Ge(a, b) == IsNum(a) /\ IsNum(b) /\ a.v >= b.v

Le(a, b) == IsNum(a) /\ IsNum(b) /\ a.v <= b.v

Gt(a, b) == IsNum(a) /\ IsNum(b) /\ a.v > b.v

\* a === b on numbers.
StrictEqNum(a, b) == IsNum(a) /\ IsNum(b) /\ a.v = b.v

Plus(a, b) == IF IsNum(a) /\ IsNum(b) THEN Num(a.v + b.v) ELSE NaN

Minus(a, b) == IF IsNum(a) /\ IsNum(b) THEN Num(a.v - b.v) ELSE NaN

\* a === b on two Principal objects obtained from separate calls
\* (ic.caller(), a decoded payload, a record read back from a stable map):
\* object identity, which no two such objects share.
PrincipalStrictEq(a, b) == FALSE

----------------------------------------------------------------------------
(* Constants of the program *)

DEFAULT_AVAILABLE_DAYS == 21

PENDING == "PENDING"

APPROVED == "APPROVED"

REJECTED == "REJECTED"

LeaveStatuses == {PENDING, APPROVED, REJECTED}

\* 24 * 60 * 60 * 1000 ms, in quarter days.
OneDay == 4

YearLen == 365 * OneDay

\* new Date().getFullYear(): dates are counted from the start of this year.
CurrentYear == 0

----------------------------------------------------------------------------
(* src/src/utils.ts *)

Abs(n) == IF n < 0 THEN 0 - n ELSE n

\* Math.round of the non-negative quotient n / d: halves round up.
RoundDiv(n, d) == (2 * n + d) \div (2 * d)

\* findDiffInDays returning the rounded span as it is, 0 included.
findDiffInDays_NoMinimum(startDate, endDate) ==
    IF IsNum(startDate) /\ IsNum(endDate)
    THEN Num(RoundDiv(Abs(endDate.v - startDate.v), OneDay))
    ELSE NaN

findDiffInDays(startDate, endDate) ==
    IF IsNum(startDate) /\ IsNum(endDate)
    THEN LET diffDays == RoundDiv(Abs(endDate.v - startDate.v), OneDay)
         IN  IF diffDays = 0 THEN Num(1) ELSE Num(diffDays)
    ELSE NaN

isValidEmail(email) == email \in {"a@x.io", "b@x.io"}

\* new Date(d).getFullYear()
getFullYear(d) == IF IsNum(d) THEN Num(d.v \div YearLen) ELSE NaN

isValidUUID(id) == id \in LeaveIds

----------------------------------------------------------------------------
(* Helpers of part_001 *)

Result(res, us) == [res |-> res, users |-> us]

\* updateUserParams without the lookup of the new email among the stored users.
updateUserParams_NoEmailLookup(us, id, availableDays, pIsActive, pIsAdmin, name, email) ==
    IF id \notin DOMAIN us
    THEN Result("ErrUserNotFound", us)
    ELSE LET user == us[id]
             u1 == IF Truthy(availableDays)
                   THEN [user EXCEPT !.availableDays = availableDays.v]
                   ELSE user
             u2 == IF pIsActive = "true" THEN [u1 EXCEPT !.isActive = TRUE] ELSE u1
             u3 == IF pIsAdmin = "true" THEN [u2 EXCEPT !.isAdmin = TRUE] ELSE u2
             u4 == IF name # "" THEN [u3 EXCEPT !.name = name] ELSE u3
         IN  IF email # ""
             THEN IF ~isValidEmail(email)
                  THEN Result("ErrIncorrectEmail", us)
                  ELSE Result("Ok", [us EXCEPT ![id] = [u4 EXCEPT !.email = email]])
             ELSE Result("Ok", [us EXCEPT ![id] = u4])

\* updateUserParams storing the copied fields before the email is validated.
updateUserParams_InsertBeforeEmailCheck(us, id, availableDays, pIsActive, pIsAdmin, name, email) ==
    IF id \notin DOMAIN us
    THEN Result("ErrUserNotFound", us)
    ELSE LET user == us[id]
             u1 == IF Truthy(availableDays)
                   THEN [user EXCEPT !.availableDays = availableDays.v]
                   ELSE user
             u2 == IF pIsActive = "true" THEN [u1 EXCEPT !.isActive = TRUE] ELSE u1
             u3 == IF pIsAdmin = "true" THEN [u2 EXCEPT !.isAdmin = TRUE] ELSE u2
             u4 == IF name # "" THEN [u3 EXCEPT !.name = name] ELSE u3
             stored == [us EXCEPT ![id] = u4]
         IN  IF email # ""
             THEN IF ~isValidEmail(email)
                  THEN Result("ErrIncorrectEmail", stored)
                  ELSE IF \E p \in DOMAIN us : us[p].email = email
                       THEN Result("ErrEmailExists", stored)
                       ELSE Result("Ok", [us EXCEPT ![id] = [u4 EXCEPT !.email = email]])
             ELSE Result("Ok", stored)

\* updateUserParams copying every numeric availableDays, 0 included.
updateUserParams_CopiesZeroDays(us, id, availableDays, pIsActive, pIsAdmin, name, email) ==
    IF id \notin DOMAIN us
    THEN Result("ErrUserNotFound", us)
    ELSE LET user == us[id]
             u1 == IF IsNum(availableDays)
                   THEN [user EXCEPT !.availableDays = availableDays.v]
                   ELSE user
             u2 == IF pIsActive = "true" THEN [u1 EXCEPT !.isActive = TRUE] ELSE u1
             u3 == IF pIsAdmin = "true" THEN [u2 EXCEPT !.isAdmin = TRUE] ELSE u2
             u4 == IF name # "" THEN [u3 EXCEPT !.name = name] ELSE u3
         IN  IF email # ""
             THEN IF ~isValidEmail(email)
                  THEN Result("ErrIncorrectEmail", us)
                  ELSE IF \E p \in DOMAIN us : us[p].email = email
                       THEN Result("ErrEmailExists", us)
                       ELSE Result("Ok", [us EXCEPT ![id] = [u4 EXCEPT !.email = email]])
             ELSE Result("Ok", [us EXCEPT ![id] = u4])

\* updateUserParams: the result and the user store after the call.  An absent
\* name or email is the empty string (both are falsy and only tested).
updateUserParams(us, id, availableDays, pIsActive, pIsAdmin, name, email) ==
    IF id \notin DOMAIN us
    THEN Result("ErrUserNotFound", us)
    ELSE LET user == us[id]
             u1 == IF Truthy(availableDays)
                   THEN [user EXCEPT !.availableDays = availableDays.v]
                   ELSE user
             u2 == IF pIsActive = "true" THEN [u1 EXCEPT !.isActive = TRUE] ELSE u1
             u3 == IF pIsAdmin = "true" THEN [u2 EXCEPT !.isAdmin = TRUE] ELSE u2
             u4 == IF name # "" THEN [u3 EXCEPT !.name = name] ELSE u3
         IN  IF email # ""
             THEN IF ~isValidEmail(email)
                  THEN Result("ErrIncorrectEmail", us)
                  ELSE IF \E p \in DOMAIN us : us[p].email = email
                       THEN Result("ErrEmailExists", us)
                       ELSE Result("Ok", [us EXCEPT ![id] = [u4 EXCEPT !.email = email]])
             ELSE Result("Ok", [us EXCEPT ![id] = u4])

updateUsersAvailableDays(us, userId, leaveDays, operation) ==
    IF userId \notin DOMAIN us \/ us[userId].availableDays = 0
    THEN Result("ErrSomethingWentWrong", us)
    ELSE LET availableDays ==
                 IF operation = "ADD"
                 THEN Plus(Num(us[userId].availableDays), leaveDays)
                 ELSE IF operation = "SUBTRACT"
                      THEN Minus(Num(us[userId].availableDays), leaveDays)
                      ELSE Num(us[userId].availableDays)
         IN  updateUserParams(us, userId, availableDays,
                              "undefined", "undefined", "", "")

\* isAdmin() that only tests that the caller has a user record.
isAdmin_AnyUser(caller) == caller \in DOMAIN users

isAdmin(caller) == caller \in DOMAIN users /\ users[caller].isAdmin

isActive(caller) == caller \in DOMAIN users /\ users[caller].isActive

----------------------------------------------------------------------------
(* State *)

\* The last call and the result it returned.
Last(op, caller, res) == [op |-> op, res |-> res]

Init ==
    /\ users = [p \in {} |-> 0]
    /\ leaves = [i \in {} |-> 0]
    /\ calls = 0
    /\ last = Last("init", "none", "Ok")

----------------------------------------------------------------------------
(* User management *)

\* createUser without the lookup of the email among the stored users.
createUserResult_NoEmailLookup(payload) ==
    IF payload.name = "" \/ payload.email = ""
    THEN "ErrRequired"
    ELSE IF ~isValidEmail(payload.email)
         THEN "ErrIncorrectEmail"
         ELSE "Ok"

createUserResult(payload) ==
    IF payload.name = "" \/ payload.email = ""
    THEN "ErrRequired"
    ELSE IF ~isValidEmail(payload.email)
         THEN "ErrIncorrectEmail"
         ELSE IF \E p \in DOMAIN users : users[p].email = payload.email
              THEN "ErrEmailExists"
              ELSE "Ok"

\* createUser that activates every new user, not only the first.
createUser_AlwaysActive(caller, payload) ==
    LET res == createUserResult(payload)
        user == [name |-> payload.name,
                 email |-> payload.email,
                 isActive |-> TRUE,
                 isAdmin |-> (DOMAIN users = {}),
                 availableDays |-> DEFAULT_AVAILABLE_DAYS]
    IN  /\ users' = IF res = "Ok" THEN (caller :> user) @@ users ELSE users
        /\ last' = Last("createUser", caller, res)
        /\ UNCHANGED leaves

createUser(caller, payload) ==
    LET res == createUserResult(payload)
        user == [name |-> payload.name,
                 email |-> payload.email,
                 isActive |-> (DOMAIN users = {}),
                 isAdmin |-> (DOMAIN users = {}),
                 availableDays |-> DEFAULT_AVAILABLE_DAYS]
    IN  /\ users' = IF res = "Ok" THEN (caller :> user) @@ users ELSE users
        /\ last' = Last("createUser", caller, res)
        /\ UNCHANGED leaves

\* promoteUser without "if (payload.isAdmin) payload.isActive = true".
promotedIsActive_AsGiven(payload) == payload.isActive

\* The payload as promoteUser rewrites it before the update.
promotedIsActive(payload) ==
    IF payload.isAdmin = "true" THEN "true" ELSE payload.isActive

promotedIsAdmin(payload) ==
    IF promotedIsActive(payload) = "false" THEN "false" ELSE payload.isAdmin

\* promoteUser without the isAdmin() test of the caller.
promoteUser_NoAdminCheck(caller, payload) ==
    LET r == IF payload.id \notin DOMAIN users
             THEN Result("ErrUserNotFound", users)
             ELSE IF PrincipalStrictEq(payload.id, caller)
                  THEN Result("ErrEditYourself", users)
                  ELSE updateUserParams(users, payload.id, Undefined,
                                        promotedIsActive(payload),
                                        promotedIsAdmin(payload), "", "")
    IN  /\ users' = r.users
        /\ last' = Last("promoteUser", caller, r.res)
        /\ UNCHANGED leaves

\* promoteUser passing the payload's flags on as they were given.
promoteUser_NoRewrite(caller, payload) ==
    LET r == IF ~isAdmin(caller)
             THEN Result("ErrPermission", users)
             ELSE IF payload.id \notin DOMAIN users
                  THEN Result("ErrUserNotFound", users)
                  ELSE IF PrincipalStrictEq(payload.id, caller)
                       THEN Result("ErrEditYourself", users)
                       ELSE updateUserParams(users, payload.id, Undefined,
                                             payload.isActive,
                                             payload.isAdmin, "", "")
    IN  /\ users' = r.users
        /\ last' = Last("promoteUser", caller, r.res)
        /\ UNCHANGED leaves

\* The lookup of the target (line 119) and the None arm of updateUserParams
\* return the same "User not found" error; the self-edit test compares two
\* Principal objects with ===.
promoteUser(caller, payload) ==
    LET r == IF ~isAdmin(caller)
             THEN Result("ErrPermission", users)
             ELSE IF payload.id \notin DOMAIN users
                  THEN Result("ErrUserNotFound", users)
                  ELSE IF PrincipalStrictEq(payload.id, caller)
                       THEN Result("ErrEditYourself", users)
                       ELSE updateUserParams(users, payload.id, Undefined,
                                             promotedIsActive(payload),
                                             promotedIsAdmin(payload), "", "")
    IN  /\ users' = r.users
        /\ last' = Last("promoteUser", caller, r.res)
        /\ UNCHANGED leaves

\* updateUser passing the default allowance along with the name and the email.
updateUser_ResetsDays(caller, payload) ==
    LET r == IF payload.name = "" /\ payload.email = ""
             THEN Result("ErrEmpty", users)
             ELSE updateUserParams(users, caller, Num(DEFAULT_AVAILABLE_DAYS),
                                   "undefined", "undefined",
                                   payload.name, payload.email)
    IN  /\ users' = r.users
        /\ last' = Last("updateUser", caller, r.res)
        /\ UNCHANGED leaves

updateUser(caller, payload) ==
    LET r == IF payload.name = "" /\ payload.email = ""
             THEN Result("ErrEmpty", users)
             ELSE updateUserParams(users, caller, Undefined, "undefined",
                                   "undefined", payload.name, payload.email)
    IN  /\ users' = r.users
        /\ last' = Last("updateUser", caller, r.res)
        /\ UNCHANGED leaves

----------------------------------------------------------------------------
(* Leave management *)

\* The three disjuncts tested for each stored leave of the caller.
overlaps(currentLeave, startDate, endDate) ==
    \/ Le(currentLeave.startDate, startDate) /\ Le(startDate, currentLeave.endDate)
    \/ Le(currentLeave.startDate, endDate) /\ Le(endDate, currentLeave.endDate)
    \/ Ge(currentLeave.startDate, startDate) /\ Ge(endDate, currentLeave.endDate)

\* requestLeave with the balance check "<" written as "<=".
requestLeaveResult_BalanceLe(caller, payload) ==
    LET diffDays == findDiffInDays(payload.startDate, payload.endDate)
    IN  IF caller \notin DOMAIN users
        THEN "ErrNoUser"
        ELSE IF ~(users[caller].isActive)
        THEN "ErrNotActivated"
        ELSE IF Ge(payload.startDate, payload.endDate)
        THEN "ErrStartBeforeEnd"
        ELSE IF StrictEqNum(diffDays, Num(0))
        THEN "ErrOneDay"
        ELSE IF Le(Num(users[caller].availableDays), diffDays)
        THEN "ErrExceeding"
        ELSE IF \/ Gt(getFullYear(payload.startDate), Num(CurrentYear))
                \/ Gt(getFullYear(payload.endDate), Num(CurrentYear))
                \/ Lt(getFullYear(payload.startDate), Num(CurrentYear))
                \/ Lt(getFullYear(payload.endDate), Num(CurrentYear))
        THEN "ErrYear"
        ELSE "Ok"

\* requestLeave without the isActive() test of the caller.
requestLeaveResult_NoActiveCheck(caller, payload) ==
    LET diffDays == findDiffInDays(payload.startDate, payload.endDate)
    IN  IF caller \notin DOMAIN users
        THEN "ErrNoUser"
        ELSE IF Ge(payload.startDate, payload.endDate)
        THEN "ErrStartBeforeEnd"
        ELSE IF StrictEqNum(diffDays, Num(0))
        THEN "ErrOneDay"
        ELSE IF Lt(Num(users[caller].availableDays), diffDays)
        THEN "ErrExceeding"
        ELSE IF \/ Gt(getFullYear(payload.startDate), Num(CurrentYear))
                \/ Gt(getFullYear(payload.endDate), Num(CurrentYear))
                \/ Lt(getFullYear(payload.startDate), Num(CurrentYear))
                \/ Lt(getFullYear(payload.endDate), Num(CurrentYear))
        THEN "ErrYear"
        ELSE "Ok"

\* requestLeave without the test "availableDays < diffDays".
requestLeaveResult_NoBalanceCheck(caller, payload) ==
    LET diffDays == findDiffInDays(payload.startDate, payload.endDate)
    IN  IF caller \notin DOMAIN users
        THEN "ErrNoUser"
        ELSE IF ~isActive(caller)
        THEN "ErrNotActivated"
        ELSE IF Ge(payload.startDate, payload.endDate)
        THEN "ErrStartBeforeEnd"
        ELSE IF StrictEqNum(diffDays, Num(0))
        THEN "ErrOneDay"
        ELSE IF \/ Gt(getFullYear(payload.startDate), Num(CurrentYear))
                \/ Gt(getFullYear(payload.endDate), Num(CurrentYear))
                \/ Lt(getFullYear(payload.startDate), Num(CurrentYear))
                \/ Lt(getFullYear(payload.endDate), Num(CurrentYear))
        THEN "ErrYear"
        ELSE "Ok"

\* requestLeave applying the user checks only to a caller that has a record.
requestLeaveResult_UnknownCallerPasses(caller, payload) ==
    LET diffDays == findDiffInDays(payload.startDate, payload.endDate)
        known == caller \in DOMAIN users
    IN  IF known /\ ~isActive(caller)
        THEN "ErrNotActivated"
        ELSE IF Ge(payload.startDate, payload.endDate)
        THEN "ErrStartBeforeEnd"
        ELSE IF StrictEqNum(diffDays, Num(0))
        THEN "ErrOneDay"
        ELSE IF known /\ Lt(Num(users[caller].availableDays), diffDays)
        THEN "ErrExceeding"
        ELSE IF \/ Gt(getFullYear(payload.startDate), Num(CurrentYear))
                \/ Gt(getFullYear(payload.endDate), Num(CurrentYear))
                \/ Lt(getFullYear(payload.startDate), Num(CurrentYear))
                \/ Lt(getFullYear(payload.endDate), Num(CurrentYear))
        THEN "ErrYear"
        ELSE "Ok"

\* The checks of requestLeave, in the order of the code.  The overlap test
\* runs inside a forEach callback: its return value is discarded by forEach
\* and the function goes on to store the leave, so it decides nothing here.
requestLeaveResult(caller, payload) ==
    LET diffDays == findDiffInDays(payload.startDate, payload.endDate)
    IN  IF caller \notin DOMAIN users
        THEN "ErrNoUser"
        ELSE IF ~isActive(caller)
        THEN "ErrNotActivated"
        ELSE IF Ge(payload.startDate, payload.endDate)
        THEN "ErrStartBeforeEnd"
        ELSE IF StrictEqNum(diffDays, Num(0))
        THEN "ErrOneDay"
        ELSE IF Lt(Num(users[caller].availableDays), diffDays)
        THEN "ErrExceeding"
        ELSE IF \/ Gt(getFullYear(payload.startDate), Num(CurrentYear))
                \/ Gt(getFullYear(payload.endDate), Num(CurrentYear))
                \/ Lt(getFullYear(payload.startDate), Num(CurrentYear))
                \/ Lt(getFullYear(payload.endDate), Num(CurrentYear))
        THEN "ErrYear"
        ELSE "Ok"

\* uuidv4(): an id no stored leave has; the unused ids are interchangeable and
\* the least one is taken.
newLeaveId == CHOOSE id \in LeaveIds \ DOMAIN leaves :
                  \A other \in LeaveIds \ DOMAIN leaves : id <= other

requestLeave(caller, payload) ==
    LET res == requestLeaveResult(caller, payload)
        diffDays == findDiffInDays(payload.startDate, payload.endDate)
    IN  /\ last' = Last("requestLeave", caller, res)
        /\ IF res = "Ok"
           THEN /\ LeaveIds \ DOMAIN leaves # {}
                /\ LET leave == [userId |-> caller,
                                 updatedAt |-> "None",
                                 status |-> PENDING,
                                 days |-> diffDays,
                                 startDate |-> payload.startDate,
                                 endDate |-> payload.endDate]
                   IN  /\ leaves' = (newLeaveId :> leave) @@ leaves
                       /\ users' = updateUsersAvailableDays(
                                       users, leave.userId, leave.days, "SUBTRACT").users
           ELSE UNCHANGED <<users, leaves>>

\* Statuses a caller may pass to the query; "" is the absent (falsy) status.
QueryStatusInputs == StatusInputs \cup {""}

\* The query getMyLeaveRequestsByStatus: its result and the ids of the leaves
\* it returns.  The filter compares the textual form of the owner with the
\* textual form of the caller and never reads the status argument.
getMyLeaveRequestsByStatus(caller, status) ==
    IF ~isActive(caller)
    THEN [res |-> "ErrNotActivated", leaves |-> {}]
    ELSE IF status = "" \/ status \notin LeaveStatuses
         THEN [res |-> "ErrStatus", leaves |-> {}]
         ELSE [res |-> "Ok",
               leaves |-> {i \in DOMAIN leaves : leaves[i].userId = caller}]

\* updateLeave without the comparison of the leave's userId with the caller.
updateLeave_NoOwnerCheck(caller, id, payload) ==
    LET diffDays == findDiffInDays(payload.startDate, payload.endDate)
        res == IF ~isValidUUID(id)
               THEN "ErrInvalidId"
               ELSE IF id \notin DOMAIN leaves
               THEN "ErrLeaveNotFound"
               ELSE IF Le(diffDays, Num(0))
               THEN "ErrOneDay"
               ELSE "Ok"
    IN  /\ last' = Last("updateLeave", caller, res)
        /\ leaves' = IF res = "Ok"
                     THEN [leaves EXCEPT ![id] =
                              [@ EXCEPT !.startDate = payload.startDate,
                                        !.endDate = payload.endDate,
                                        !.days = diffDays,
                                        !.updatedAt = "Some"]]
                     ELSE leaves
        /\ UNCHANGED users

updateLeave(caller, id, payload) ==
    LET diffDays == findDiffInDays(payload.startDate, payload.endDate)
        res == IF ~isValidUUID(id)
               THEN "ErrInvalidId"
               ELSE IF id \notin DOMAIN leaves
               THEN "ErrLeaveNotFound"
               ELSE IF ~PrincipalStrictEq(leaves[id].userId, caller)
               THEN "ErrPermission"
               ELSE IF Le(diffDays, Num(0))
               THEN "ErrOneDay"
               ELSE "Ok"
    IN  /\ last' = Last("updateLeave", caller, res)
        /\ leaves' = IF res = "Ok"
                     THEN [leaves EXCEPT ![id] =
                              [@ EXCEPT !.startDate = payload.startDate,
                                        !.endDate = payload.endDate,
                                        !.days = diffDays,
                                        !.updatedAt = "Some"]]
                     ELSE leaves
        /\ UNCHANGED users

deleteLeave(caller, id) ==
    LET res == IF ~isValidUUID(id)
               THEN "ErrInvalidId"
               ELSE IF id \notin DOMAIN leaves \/ leaves[id].status = "ACCEPTED"
               THEN "ErrAlreadyAccepted"
               ELSE "Ok"
    IN  /\ last' = Last("deleteLeave", caller, res)
        /\ IF res = "Ok"
           THEN LET deletedLeave == leaves[id]
                IN  /\ leaves' = [i \in DOMAIN leaves \ {id} |-> leaves[i]]
                    /\ users' = IF deletedLeave.status = PENDING
                                THEN updateUsersAvailableDays(
                                         users, deletedLeave.userId,
                                         deletedLeave.days, "ADD").users
                                ELSE users
           ELSE UNCHANGED <<users, leaves>>

\* updateLeaveStatus writing the caller as the owner of the updated leave.
updateLeaveStatus_OwnerIsCaller(caller, id, status) ==
    LET res == IF ~isAdmin(caller)
               THEN "ErrPermission"
               ELSE IF ~isValidUUID(id)
               THEN "ErrInvalidId"
               ELSE IF id \notin DOMAIN leaves
               THEN "ErrLeaveNotFound"
               ELSE "Ok"
    IN  /\ last' = Last("updateLeaveStatus", caller, res)
        /\ IF res = "Ok"
           THEN LET leave == leaves[id]
                IN  /\ leaves' = [leaves EXCEPT ![id] =
                                     [@ EXCEPT !.status = status,
                                               !.userId = caller,
                                               !.updatedAt = "Some"]]
                    /\ users' = IF status = REJECTED
                                THEN updateUsersAvailableDays(
                                         users, leave.userId, leave.days, "ADD").users
                                ELSE updateUsersAvailableDays(
                                         users, leave.userId, leave.days, "SUBTRACT").users
           ELSE UNCHANGED <<users, leaves>>

updateLeaveStatus(caller, id, status) ==
    LET res == IF ~isAdmin(caller)
               THEN "ErrPermission"
               ELSE IF ~isValidUUID(id)
               THEN "ErrInvalidId"
               ELSE IF id \notin DOMAIN leaves
               THEN "ErrLeaveNotFound"
               ELSE "Ok"
    IN  /\ last' = Last("updateLeaveStatus", caller, res)
        /\ IF res = "Ok"
           THEN LET leave == leaves[id]
                IN  /\ leaves' = [leaves EXCEPT ![id] =
                                     [@ EXCEPT !.status = status,
                                               !.updatedAt = "Some"]]
                    /\ users' = IF status = REJECTED
                                THEN updateUsersAvailableDays(
                                         users, leave.userId, leave.days, "ADD").users
                                ELSE updateUsersAvailableDays(
                                         users, leave.userId, leave.days, "SUBTRACT").users
           ELSE UNCHANGED <<users, leaves>>

----------------------------------------------------------------------------
(* Specification *)

UserPayloads == [name : Names, email : Emails]

PromotePayloads == [id : Principals, isAdmin : FlagInputs, isActive : FlagInputs]

\* Payloads a caller may pass: a quarter day (rounds to 0 days), twenty-one
\* days, equal dates, reversed dates, a day that starts in the previous year,
\* a day that ends in the next year, and two NaN dates.
LeavePayloads ==
    {[startDate |-> Num(0), endDate |-> Num(1)],
     [startDate |-> Num(0), endDate |-> Num(DEFAULT_AVAILABLE_DAYS * OneDay)],
     [startDate |-> Num(0), endDate |-> Num(0)],
     [startDate |-> Num(1), endDate |-> Num(0)],
     [startDate |-> Num(0 - 1), endDate |-> Num(0)],
     [startDate |-> Num(YearLen - 1), endDate |-> Num(YearLen)],
     [startDate |-> NaN, endDate |-> NaN]}

\* One more update call is received.
Call == calls < MaxCalls /\ calls' = calls + 1

CreateUser ==
    Call /\ \E c \in Principals, payload \in UserPayloads : createUser(c, payload)

PromoteUser ==
    Call /\ \E c \in Principals, payload \in PromotePayloads : promoteUser(c, payload)

UpdateUser ==
    Call /\ \E c \in Principals, payload \in UserPayloads : updateUser(c, payload)

RequestLeave ==
    Call /\ \E c \in Principals, payload \in LeavePayloads : requestLeave(c, payload)

UpdateLeave ==
    Call /\ \E c \in Principals, id \in IdInputs, payload \in LeavePayloads :
                updateLeave(c, id, payload)

DeleteLeave ==
    Call /\ \E c \in Principals, id \in IdInputs : deleteLeave(c, id)

UpdateLeaveStatus ==
    Call /\ \E c \in Principals, id \in IdInputs, status \in StatusInputs :
                updateLeaveStatus(c, id, status)

Next ==
    \/ CreateUser
    \/ PromoteUser
    \/ UpdateUser
    \/ RequestLeave
    \/ UpdateLeave
    \/ DeleteLeave
    \/ UpdateLeaveStatus

Spec == Init /\ [][Next]_vars

----------------------------------------------------------------------------
(* Properties *)

Balances(us) == [p \in DOMAIN us |-> us[p].availableDays]

\* The caller already has a stored leave that overlaps the requested dates.
HasOverlap(caller, payload) ==
    \E id \in DOMAIN leaves :
        /\ leaves[id].userId = caller
        /\ overlaps(leaves[id], payload.startDate, payload.endDate)

\* C1: a requestLeave whose dates overlap a stored leave of the caller
\* returns an error, stores no leave and leaves the balances unchanged.
C1_OverlapRejected ==
    [][last'.op = "requestLeave" =>
          \A c \in Principals, payload \in LeavePayloads :
              (HasOverlap(c, payload) /\ requestLeave(c, payload))
                  => (last'.res # "Ok" /\ leaves' = leaves /\ users' = users)]_vars

\* C2: a successful updateLeaveStatus with a status other than REJECTED
\* leaves every user's availableDays unchanged.
C2_NonRejectKeepsBalances ==
    [][(last'.op = "updateLeaveStatus" /\ last'.res = "Ok") =>
          \A c \in Principals, id \in IdInputs, status \in StatusInputs \ {REJECTED} :
              updateLeaveStatus(c, id, status)
                  => Balances(users') = Balances(users)]_vars

\* C3: a successful updateLeaveStatus(id, REJECTED) on a leave with a numeric
\* day count sets the owner's availableDays to its previous value plus the
\* leave's days, whatever the previous balance.
C3_RejectRefundsDays ==
    [][(last'.op = "updateLeaveStatus" /\ last'.res = "Ok") =>
          \A c \in Principals, id \in DOMAIN leaves :
              (IsNum(leaves[id].days) /\ updateLeaveStatus(c, id, REJECTED))
                  => users'[leaves[id].userId].availableDays
                       = users[leaves[id].userId].availableDays + leaves[id].days.v]_vars

\* C4: a successful requestLeave of days <= the caller's balance stores exactly
\* one new PENDING leave of the caller with the computed days and, in the same
\* step, lowers the caller's availableDays by exactly that many days.
C4_RequestStoresAndDebits ==
    [][(last'.op = "requestLeave" /\ last'.res = "Ok") =>
          \A c \in DOMAIN users, payload \in LeavePayloads :
              LET days == findDiffInDays(payload.startDate, payload.endDate)
              IN  (Le(days, Num(users[c].availableDays)) /\ requestLeave(c, payload))
                      => /\ \E id \in LeaveIds \ DOMAIN leaves :
                               /\ DOMAIN leaves' = DOMAIN leaves \cup {id}
                               /\ \A i \in DOMAIN leaves : leaves'[i] = leaves[i]
                               /\ leaves'[id].status = PENDING
                               /\ leaves'[id].userId = c
                               /\ leaves'[id].days = days
                         /\ users'[c].availableDays
                              = users[c].availableDays - days.v]_vars

\* C5: a requestLeave whose computed days exceed the caller's availableDays
\* returns an error, stores no leave and changes no user; a request for exactly
\* the caller's availableDays is not refused by the balance check.
C5_ExceedingRejected ==
    [][last'.op = "requestLeave" =>
          \A c \in DOMAIN users, payload \in LeavePayloads :
              LET days == findDiffInDays(payload.startDate, payload.endDate)
              IN  (Ge(days, Num(users[c].availableDays)) /\ requestLeave(c, payload))
                      => IF Gt(days, Num(users[c].availableDays))
                         THEN last'.res # "Ok" /\ leaves' = leaves /\ users' = users
                         ELSE last'.res # "ErrExceeding"]_vars

\* A requestLeave has just been refused by the balance check.
C5_Witness == last.op = "requestLeave" /\ last.res = "ErrExceeding"

\* C6: deleteLeave on a stored leave whose status is not PENDING returns an
\* error, keeps the leave and changes no balance.
C6_DeleteNonPendingRejected ==
    [][last'.op = "deleteLeave" =>
          \A c \in Principals, id \in DOMAIN leaves :
              (leaves[id].status # PENDING /\ deleteLeave(c, id))
                  => (last'.res # "Ok" /\ leaves' = leaves
                      /\ Balances(users') = Balances(users))]_vars

\* C7: deleteLeave on a stored PENDING leave with a numeric day count removes
\* the leave and sets the owner's availableDays to its previous value plus the
\* leave's days, whatever the previous balance.
C7_DeletePendingRefunds ==
    [][last'.op = "deleteLeave" =>
          \A c \in Principals, id \in DOMAIN leaves :
              (/\ leaves[id].status = PENDING
               /\ IsNum(leaves[id].days)
               /\ deleteLeave(c, id))
                  => /\ id \notin DOMAIN leaves'
                     /\ users'[leaves[id].userId].availableDays
                          = users[leaves[id].userId].availableDays
                              + leaves[id].days.v]_vars

\* C8: deleteLeave by a principal other than the leave's owner returns an
\* error and leaves the leave store and every balance unchanged.
C8_DeleteByOwnerOnly ==
    [][last'.op = "deleteLeave" =>
          \A c \in Principals, id \in DOMAIN leaves :
              (leaves[id].userId # c /\ deleteLeave(c, id))
                  => (last'.res # "Ok" /\ leaves' = leaves
                      /\ Balances(users') = Balances(users))]_vars

\* C9: after a successful promoteUser on another user whose payload has
\* isActive = false (and does not ask for isAdmin = true), the target is
\* neither active nor admin.
C9_DeactivationApplied ==
    [][(last'.op = "promoteUser" /\ last'.res = "Ok") =>
          \A c \in Principals, payload \in PromotePayloads :
              (/\ payload.id # c
               /\ payload.isActive = "false"
               /\ payload.isAdmin # "true"
               /\ promoteUser(c, payload))
                  => (~users'[payload.id].isActive /\ ~users'[payload.id].isAdmin)]_vars

\* C10: after a successful promoteUser on another user whose payload has
\* isAdmin = true, the target is admin and active, whatever the payload's
\* isActive.
C10_PromotionActivates ==
    [][(last'.op = "promoteUser" /\ last'.res = "Ok") =>
          \A c \in Principals, payload \in PromotePayloads :
              (/\ payload.id # c
               /\ payload.isAdmin = "true"
               /\ promoteUser(c, payload))
                  => (users'[payload.id].isAdmin /\ users'[payload.id].isActive)]_vars

\* The third call of a behaviour was a successful promoteUser and both users
\* are now active admins: the second user, created inactive and not admin, was
\* promoted by the first with isAdmin = true.
C10_Witness ==
    /\ last.op = "promoteUser"
    /\ last.res = "Ok"
    /\ calls = 3
    /\ DOMAIN users = Principals
    /\ \A p \in Principals : users[p].isAdmin /\ users[p].isActive

Flags(us) == [p \in DOMAIN us |-> <<us[p].isAdmin, us[p].isActive>>]

\* The principal has a user record whose isAdmin is true.
HasAdminRights(c) == \E p \in DOMAIN users : p = c /\ users[p].isAdmin

\* C11: a promoteUser whose target is the calling admin returns an error and
\* leaves the user store, and so the caller's flags, unchanged.
C11_SelfPromotionRejected ==
    [][last'.op = "promoteUser" =>
          \A c \in Principals, payload \in PromotePayloads :
              (payload.id = c /\ HasAdminRights(c) /\ promoteUser(c, payload))
                  => (last'.res # "Ok" /\ users' = users)]_vars

\* C12: a promoteUser by a principal that has no user record or is not admin
\* returns an error and changes no user's isAdmin or isActive flag.
C12_PromoteAdminOnly ==
    [][last'.op = "promoteUser" =>
          \A c \in Principals, payload \in PromotePayloads :
              (~HasAdminRights(c) /\ promoteUser(c, payload))
                  => (last'.res # "Ok" /\ Flags(users') = Flags(users))]_vars

\* A promoteUser has just been refused because the caller is not an admin,
\* with a user stored who is neither active nor admin.
C12_Witness ==
    /\ last.op = "promoteUser"
    /\ last.res = "ErrPermission"
    /\ \E p \in DOMAIN users : ~users[p].isAdmin /\ ~users[p].isActive

Statuses(ls) == [i \in DOMAIN ls |-> ls[i].status]

\* C13: an updateLeaveStatus by a principal that is unregistered or not admin
\* returns an error and leaves every leave's status and every user's
\* availableDays unchanged.
C13_StatusAdminOnly ==
    [][last'.op = "updateLeaveStatus" =>
          \A c \in Principals, id \in IdInputs, status \in StatusInputs :
              (~HasAdminRights(c) /\ updateLeaveStatus(c, id, status))
                  => /\ last'.res # "Ok"
                     /\ Statuses(leaves') = Statuses(leaves)
                     /\ Balances(users') = Balances(users)]_vars

\* An updateLeaveStatus has just been refused for lack of admin rights while a
\* leave was stored.
C13_Witness ==
    /\ last.op = "updateLeaveStatus"
    /\ last.res = "ErrPermission"
    /\ DOMAIN leaves # {}

\* C14: a successful createUser on an empty user store creates an active admin
\* with 21 available days; on a non-empty store it creates an inactive
\* non-admin with 21 available days.
C14_FirstUserIsAdmin ==
    [][(last'.op = "createUser" /\ last'.res = "Ok") =>
          \A c \in Principals, payload \in UserPayloads :
              createUser(c, payload)
                  => /\ users'[c].availableDays = 21
                     /\ users'[c].isActive = (DOMAIN users = {})
                     /\ users'[c].isAdmin = (DOMAIN users = {})]_vars

\* Two createUser calls have succeeded, the second just now: the first user is
\* an active admin and the second is inactive and not admin.
C14_Witness ==
    /\ last.op = "createUser"
    /\ last.res = "Ok"
    /\ calls = 2
    /\ DOMAIN users = Principals
    /\ \E p, q \in Principals :
          /\ users[p].isAdmin /\ users[p].isActive
          /\ ~users[q].isAdmin /\ ~users[q].isActive

\* C15: a createUser whose email is the email of a stored user returns an
\* error and leaves the user store unchanged, whatever the name and the caller.
C15_DuplicateEmailRejected ==
    [][last'.op = "createUser" =>
          \A c \in Principals, payload \in UserPayloads :
              (/\ \E p \in DOMAIN users : users[p].email = payload.email
               /\ createUser(c, payload))
                  => (last'.res # "Ok" /\ users' = users)]_vars

\* A createUser has just been refused because its email is already stored.
C15_Witness == last.op = "createUser" /\ last.res = "ErrEmailExists"

\* C16: no two distinct stored users have the same email.
C16_EmailsUnique ==
    \A p, q \in DOMAIN users : p # q => users[p].email # users[q].email

\* Two users are stored and an updateUser has just succeeded.
C16_Witness ==
    /\ last.op = "updateUser"
    /\ last.res = "Ok"
    /\ DOMAIN users = Principals

\* C17: whenever createUser, updateUser, promoteUser, requestLeave,
\* updateLeave, updateLeaveStatus or deleteLeave returns an error, the user
\* store and the leave store are what they were before the call.
C17_ErrorWritesNothing ==
    [][(last'.op # "init" /\ last'.res # "Ok")
          => (users' = users /\ leaves' = leaves)]_vars

\* A stored user's updateUser carrying a malformed email has just been refused
\* after the copy of the payload's fields.
C17_Witness ==
    /\ last.op = "updateUser"
    /\ last.res = "ErrIncorrectEmail"
    /\ DOMAIN users # {}
    /\ DOMAIN leaves # {}

\* C18: getMyLeaveRequestsByStatus called by an active user with a recognized
\* status returns exactly the stored leaves that belong to the caller and have
\* that status; with any other status it returns an error.
C18_QueryFiltersByStatus ==
    \A c \in Principals, status \in QueryStatusInputs :
        (\E p \in DOMAIN users : p = c /\ users[p].isActive)
            => LET r == getMyLeaveRequestsByStatus(c, status)
               IN  IF status \in {"PENDING", "APPROVED", "REJECTED"}
                   THEN /\ r.res = "Ok"
                        /\ r.leaves = {i \in DOMAIN leaves :
                                           /\ leaves[i].userId = c
                                           /\ leaves[i].status = status}
                   ELSE r.res # "Ok"

\* C19: updateLeave called by a principal that is not the userId of the leave
\* returns an error and leaves the leave's startDate, endDate, days and
\* updatedAt unchanged.
C19_UpdateLeaveOwnerOnly ==
    [][last'.op = "updateLeave" =>
          \A c \in Principals, id \in LeaveIds, payload \in LeavePayloads :
              (/\ id \in DOMAIN leaves
               /\ leaves[id].userId # c
               /\ updateLeave(c, id, payload))
                  => /\ last'.res # "Ok"
                     /\ leaves'[id].startDate = leaves[id].startDate
                     /\ leaves'[id].endDate = leaves[id].endDate
                     /\ leaves'[id].days = leaves[id].days
                     /\ leaves'[id].updatedAt = leaves[id].updatedAt]_vars

\* An updateLeave on a stored leave has just been refused for lack of
\* permission; the principal that does not own the leave reaches this state.
C19_Witness ==
    /\ last.op = "updateLeave"
    /\ last.res = "ErrPermission"
    /\ \E i \in DOMAIN leaves : leaves[i].updatedAt = "None"

\* C20: updateLeave called by the leave's owner on a stored leave, with dates
\* one day or more apart, succeeds: the leave gets the payload's startDate and
\* endDate and the days recomputed from them, its userId and status stay, and
\* no user's availableDays changes.
C20_OwnerUpdatesLeave ==
    [][last'.op = "updateLeave" =>
          \A c \in Principals, id \in LeaveIds, payload \in LeavePayloads :
              (/\ id \in DOMAIN leaves
               /\ leaves[id].userId = c
               /\ Gt(findDiffInDays(payload.startDate, payload.endDate), Num(0))
               /\ updateLeave(c, id, payload))
                  => /\ last'.res = "Ok"
                     /\ DOMAIN leaves' = DOMAIN leaves
                     /\ leaves'[id].startDate = payload.startDate
                     /\ leaves'[id].endDate = payload.endDate
                     /\ leaves'[id].days =
                            findDiffInDays(payload.startDate, payload.endDate)
                     /\ leaves'[id].userId = leaves[id].userId
                     /\ leaves'[id].status = leaves[id].status
                     /\ Balances(users') = Balances(users)]_vars

\* C21: requestLeave by a caller with no user record returns the not-found
\* error, and by a registered caller whose isActive is false returns the
\* not-activated error; in both cases no leave is stored and no balance
\* changes, whatever the dates.
C21_UnknownOrInactiveRejected ==
    [][last'.op = "requestLeave" =>
          \A c \in Principals, payload \in LeavePayloads :
              (/\ \A p \in DOMAIN users : p = c => ~users[p].isActive
               /\ requestLeave(c, payload))
                  => /\ last'.res = IF c \in DOMAIN users
                                    THEN "ErrNotActivated"
                                    ELSE "ErrNoUser"
                     /\ leaves' = leaves
                     /\ Balances(users') = Balances(users)]_vars

\* A requestLeave of a registered caller that is not active has just been
\* refused.
C21_Witness ==
    /\ last.op = "requestLeave"
    /\ last.res = "ErrNotActivated"
    /\ \E p \in DOMAIN users : ~users[p].isActive

\* In the calendar year that is current: a date of that year.  NaN is a date
\* of no year.
InCurrentYear(d) == IsNum(d) /\ 0 <= d.v /\ d.v < YearLen

\* C22: requestLeave succeeds only if both startDate and endDate fall in the
\* current calendar year; otherwise it returns an error and stores nothing.
C22_OnlyCurrentYear ==
    [][last'.op = "requestLeave" =>
          \A c \in Principals, payload \in LeavePayloads :
              (/\ ~(InCurrentYear(payload.startDate) /\ InCurrentYear(payload.endDate))
               /\ requestLeave(c, payload))
                  => (last'.res # "Ok" /\ leaves' = leaves)]_vars

\* |endDate - startDate| in days rounded to the nearest integer, at least 1,
\* for startDate < endDate.
RoundedSpan(payload) ==
    LET ms == payload.endDate.v - payload.startDate.v
    IN  IF 2 * ms < OneDay THEN 1 ELSE RoundDiv(ms, OneDay)

\* C23: every successful requestLeave with startDate < endDate stores a leave
\* whose days is the span in days rounded to the nearest integer, or 1 when
\* that rounds to 0; no requestLeave with startDate < endDate is refused for
\* being shorter than one day.
C23_DaysRoundedMinOne ==
    [][last'.op = "requestLeave" =>
          \A c \in DOMAIN users, payload \in LeavePayloads :
              (/\ Lt(payload.startDate, payload.endDate)
               /\ requestLeave(c, payload))
                  => /\ last'.res # "ErrOneDay"
                     /\ last'.res = "Ok" =>
                            \E id \in DOMAIN leaves' \ DOMAIN leaves :
                                leaves'[id].days = Num(RoundedSpan(payload))]_vars

\* A requestLeave of a quarter of a day has just been stored as one day.
C23_Witness ==
    /\ last.op = "requestLeave"
    /\ last.res = "Ok"
    /\ \E id \in DOMAIN leaves :
           /\ leaves[id].startDate = Num(0)
           /\ leaves[id].endDate = Num(1)
           /\ leaves[id].days = Num(1)

\* C24: the status of every stored leave is one of PENDING, APPROVED,
\* REJECTED.
C24_StatusRecognized ==
    \A id \in DOMAIN leaves : leaves[id].status \in {"PENDING", "APPROVED", "REJECTED"}

\* C25: every stored leave has startDate strictly less than endDate.
C25_StartBeforeEnd ==
    \A id \in DOMAIN leaves : Lt(leaves[id].startDate, leaves[id].endDate)

\* C26: a successful updateUser changes only the caller's record, and in it
\* only the name and the email that were supplied non-empty; a field supplied
\* empty, the caller's availableDays, isAdmin and isActive, and every other
\* user's record keep their values.
C26_UpdateUserPartial ==
    [][(last'.op = "updateUser" /\ last'.res = "Ok") =>
          \A c \in DOMAIN users, payload \in UserPayloads :
              updateUser(c, payload)
                  => users' = [users EXCEPT
                                 ![c].name = IF payload.name # ""
                                             THEN payload.name ELSE @,
                                 ![c].email = IF payload.email # ""
                                              THEN payload.email ELSE @]]_vars

\* An updateUser has just succeeded while a user's balance differs from the
\* default allowance.
C26_Witness ==
    /\ last.op = "updateUser"
    /\ last.res = "Ok"
    /\ \E p \in DOMAIN users : users[p].availableDays # 21

\* C27: no createUser, updateUser, promoteUser, requestLeave, updateLeave or
\* deleteLeave call turns a non-negative availableDays into a negative one: if
\* every balance is >= 0 before such a call, every balance is >= 0 after it.
C27_OnlyStatusUpdateGoesNegative ==
    [][(/\ last'.op \in {"createUser", "updateUser", "promoteUser",
                         "requestLeave", "updateLeave", "deleteLeave"}
        /\ \A p \in DOMAIN users : users[p].availableDays >= 0)
          => \A p \in DOMAIN users' : users'[p].availableDays >= 0]_vars

\* A requestLeave has just lowered a balance, and no balance is negative.
C27_Witness ==
    /\ last.op = "requestLeave"
    /\ last.res = "Ok"
    /\ \E p \in DOMAIN users : users[p].availableDays < 21
    /\ \A p \in DOMAIN users : users[p].availableDays >= 0

\* C28: the days of every stored leave is the day span that findDiffInDays
\* computes from the leave's own startDate and endDate, and is at least 1.
C28_DaysFollowDates ==
    \A id \in DOMAIN leaves :
        /\ leaves[id].days = findDiffInDays(leaves[id].startDate, leaves[id].endDate)
        /\ Ge(leaves[id].days, Num(1))

\* C29: the userId of a stored leave never changes: every leave that is
\* stored before and after a call has the same userId.
C29_OwnerImmutable ==
    [][\A id \in DOMAIN leaves \cap DOMAIN leaves' :
           leaves'[id].userId = leaves[id].userId]_vars

\* An admin has just updated the status of a leave that another user owns.
C29_Witness ==
    /\ last.op = "updateLeaveStatus"
    /\ last.res = "Ok"
    /\ \E id \in DOMAIN leaves :
           /\ leaves[id].updatedAt = "Some"
           /\ \E p \in DOMAIN users : p = leaves[id].userId /\ ~users[p].isAdmin

\* C30: an updateUser whose email is the caller's own current email, with a
\* non-empty name, succeeds and stores the name.
C30_OwnEmailAccepted ==
    [][last'.op = "updateUser" =>
          \A c \in DOMAIN users, payload \in UserPayloads :
              (/\ payload.email = users[c].email
               /\ payload.name # ""
               /\ updateUser(c, payload))
                  => (last'.res = "Ok" /\ users'[c].name = payload.name)]_vars

\* The stored leaves of user p that are PENDING or APPROVED.
HeldLeaves(p) ==
    {id \in DOMAIN leaves :
        leaves[id].userId = p /\ leaves[id].status \in {"PENDING", "APPROVED"}}

RECURSIVE SumDays(_)
\* The sum of the days of the leaves ids, all with a numeric day count.
SumDays(ids) ==
    IF ids = {}
    THEN 0
    ELSE LET id == CHOOSE i \in ids : TRUE
         IN  leaves[id].days.v + SumDays(ids \ {id})

\* C31: for every user, availableDays plus the sum of the days of the user's
\* stored PENDING and APPROVED leaves equals the default allowance 21.
C31_BalanceConservation ==
    \A p \in DOMAIN users :
        /\ \A id \in HeldLeaves(p) : IsNum(leaves[id].days)
        /\ users[p].availableDays + SumDays(HeldLeaves(p)) = 21

\* C32: a successful updateLeaveStatus(id, s) that directly follows a
\* successful updateLeaveStatus, on a leave whose status is already s from an
\* earlier updateLeaveStatus, leaves every user's availableDays unchanged.
C32_StatusUpdateIdempotent ==
    [][(/\ last.op = "updateLeaveStatus" /\ last.res = "Ok"
        /\ last'.op = "updateLeaveStatus" /\ last'.res = "Ok") =>
          \A c \in Principals, id \in DOMAIN leaves :
              (/\ leaves[id].updatedAt = "Some"
               /\ leaves[id].status \in {"PENDING", "APPROVED", "REJECTED"}
               /\ updateLeaveStatus(c, id, leaves[id].status))
                  => Balances(users') = Balances(users)]_vars

\* C33: no stored user's availableDays is exactly 0, so the test
\* !availableDays of updateUsersAvailableDays is false for every stored user.
C33_BalanceNeverZero ==
    \A p \in DOMAIN users : users[p].availableDays # 0

\* A request for the caller's whole balance of 21 days has just been stored,
\* and the balance that would be 0 was not written.
C33_Witness ==
    /\ last.op = "requestLeave"
    /\ last.res = "Ok"
    /\ \E id \in DOMAIN leaves :
           /\ leaves[id].days = Num(21)
           /\ leaves[id].status = "PENDING"
           /\ \E p \in DOMAIN users :
                  p = leaves[id].userId /\ users[p].availableDays = 21

\* C34: once a user is stored, some stored user has isAdmin and isActive true.
C34_AdminRemains ==
    DOMAIN users # {} => \E p \in DOMAIN users : users[p].isAdmin /\ users[p].isActive

\* C35: createUser called by a principal that already has a user record
\* leaves that record as it was.
C35_ReRegistrationKeepsRecord ==
    [][last'.op = "createUser" =>
          \A c \in DOMAIN users, payload \in UserPayloads :
              createUser(c, payload) => users'[c] = users[c]]_vars

\* C36: every stored user with isAdmin true has isActive true.
C36_AdminIsActive ==
    \A p \in DOMAIN users : users[p].isAdmin => users[p].isActive

\* A promoteUser has just succeeded, both principals are admins and a leave
\* is stored.
C36_Witness ==
    /\ last.op = "promoteUser"
    /\ last.res = "Ok"
    /\ DOMAIN users = Principals
    /\ \A p \in DOMAIN users : users[p].isAdmin
    /\ DOMAIN leaves # {}

\* C37: the userId of every stored leave is the id of a stored user.
C37_LeaveOwnerStored ==
    \A id \in DOMAIN leaves : leaves[id].userId \in DOMAIN users

\* An updateLeaveStatus has just adjusted the balance of the owner of a stored
\* leave while one principal has no user record.
C37_Witness ==
    /\ last.op = "updateLeaveStatus"
    /\ last.res = "Ok"
    /\ DOMAIN leaves # {}
    /\ DOMAIN users # Principals
    /\ \E p \in DOMAIN users : users[p].availableDays # 21

====
